---------------------------- MODULE Spec2Model ----------------------------
(***************************************************************************)
(* Model of the contact form (ContactSection.tsx) and of the table it is   *)
(* meant to write to (the contact_submissions migration).                  *)
(*                                                                         *)
(* A string is represented by the three runs that trimming distinguishes:  *)
(* `lead` whitespace characters, a core of `body` characters that starts   *)
(* and ends with a non-whitespace character, `trail` whitespace            *)
(* characters, and `shape`: whether the core has the shape of an e-mail    *)
(* address.  A string with no core keeps all its whitespace in `lead`.     *)
(***************************************************************************)
EXTENDS Integers, Sequences, FiniteSets, TLC

VARIABLES
    formData,      \* useState<ContactFormData>: the four field values
    errors,        \* useState<Partial<Record<field, string>>>
    isSubmitting,  \* useState(false)
    pending,       \* suspended handleSubmit calls waiting on their timer
    toasts,        \* number of toast() calls made so far
    rows,          \* contents of public.contact_submissions
    clock,         \* the storage layer's now()
    lastResult     \* what the last statement of an anonymous caller returned

formVars == <<formData, errors, isSubmitting, pending, toasts>>
dbVars == <<rows, clock, lastResult>>
vars == <<formData, errors, isSubmitting, pending, toasts, rows, clock, lastResult>>

---------------------------------------------------------------------------
(* Bounds of the model *)

MaxToasts == 2     \* submissions completed in one behaviour
MaxPad == 1        \* whitespace characters on either side of a sampled value
MaxRows == 2       \* rows the table holds in one behaviour

---------------------------------------------------------------------------
(* Strings *)

Str(l, b, t, s) == [lead |-> l, body |-> b, trail |-> t, shape |-> s]

EmptyStr == Str(0, 0, 0, "text")

StrLen(s) == s.lead + s.body + s.trail

\* String.prototype.trim, as zod's "trim" check applies it
Trim(s) == [s EXCEPT !.lead = 0, !.trail = 0]

\* the shortest string zod's e-mail pattern accepts is x@y.zz
EmailMinLen == 6

\* zod's e-mail pattern is anchored and admits no whitespace
IsEmail(s) == s.shape = "email" /\ s.lead = 0 /\ s.trail = 0 /\ s.body >= EmailMinLen

---------------------------------------------------------------------------
(* contactSchema *)

Fields == <<"name", "schoolName", "email", "message">>
FieldSet == {Fields[i] : i \in 1..Len(Fields)}

NameMax == 100
SchoolNameMax == 200
EmailMax == 255
MessageMin == 10
MessageMax == 1000

NameRequired == "Name is required"
NameTooLong == "Name must be less than 100 characters"
SchoolRequired == "School name is required"
SchoolTooLong == "School name must be less than 200 characters"
EmailInvalid == "Please enter a valid email"
EmailTooLong == "Email must be less than 255 characters"
MessageTooShort == "Message must be at least 10 characters"
MessageTooLong == "Message must be less than 1000 characters"

TrimCheck == [kind |-> "trim", value |-> 0, message |-> ""]
MinCheck(n, m) == [kind |-> "min", value |-> n, message |-> m]
MaxCheck(n, m) == [kind |-> "max", value |-> n, message |-> m]
EmailCheck(m) == [kind |-> "email", value |-> 0, message |-> m]

NameChecksNoMin == <<TrimCheck, MaxCheck(NameMax, NameTooLong)>>
NameChecks ==
    <<TrimCheck, MinCheck(1, NameRequired), MaxCheck(NameMax, NameTooLong)>>

SchoolNameChecksOffByOne ==
    <<TrimCheck, MinCheck(1, SchoolRequired),
      MaxCheck(SchoolNameMax + 1, SchoolTooLong)>>
SchoolNameChecks ==
    <<TrimCheck, MinCheck(1, SchoolRequired),
      MaxCheck(SchoolNameMax, SchoolTooLong)>>

EmailChecks ==
    <<TrimCheck, EmailCheck(EmailInvalid), MaxCheck(EmailMax, EmailTooLong)>>

MessageChecksNoMax == <<TrimCheck, MinCheck(MessageMin, MessageTooShort)>>
MessageChecks ==
    <<TrimCheck, MinCheck(MessageMin, MessageTooShort),
      MaxCheck(MessageMax, MessageTooLong)>>

contactSchema ==
    [name |-> NameChecks, schoolName |-> SchoolNameChecks,
     email |-> EmailChecks, message |-> MessageChecks]

\* ZodString._parse: the checks run in order over the running value; "trim"
\* replaces the value, every other check that fails adds an issue and the
\* remaining checks still run.
RECURSIVE RunChecks(_, _, _)
RunChecks(checks, data, issues) ==
    IF checks = <<>> THEN [data |-> data, issues |-> issues]
    ELSE LET c == Head(checks)
             failed ==
                 CASE c.kind = "min" -> StrLen(data) < c.value
                   [] c.kind = "max" -> StrLen(data) > c.value
                   [] c.kind = "email" -> ~IsEmail(data)
                   [] OTHER -> FALSE
         IN RunChecks(Tail(checks),
                      IF c.kind = "trim" THEN Trim(data) ELSE data,
                      IF failed THEN Append(issues, c.message) ELSE issues)

ParseField(field, value) == RunChecks(contactSchema[field], value, <<>>)

\* ZodObject._parse: the keys are parsed in the order of the shape and every
\* issue carries the key as its path
RECURSIVE ObjectIssues(_, _)
ObjectIssues(data, i) ==
    IF i > Len(Fields) THEN <<>>
    ELSE LET f == Fields[i]
             msgs == ParseField(f, data[f]).issues
         IN [k \in 1..Len(msgs) |-> [path |-> f, message |-> msgs[k]]]
            \o ObjectIssues(data, i + 1)

\* contactSchema.safeParse(formData)
SafeParse(data) ==
    LET issues == ObjectIssues(data, 1)
    IN [success |-> issues = <<>>,
        issues |-> issues,
        data |-> [f \in FieldSet |-> ParseField(f, data[f]).data]]

---------------------------------------------------------------------------
(* Component state *)

Undefined == "undefined"

EmptyForm == [f \in FieldSet |-> EmptyStr]
EmptyErrors == [f \in {} |-> Undefined]

SetKey(rec, k, v) == [x \in (DOMAIN rec) \cup {k} |-> IF x = k THEN v ELSE rec[x]]

\* the truthiness test errors[field] / errors.name of the component
HasError(errs, field) ==
    field \in DOMAIN errs /\ errs[field] # Undefined /\ errs[field] # ""

\* what the component shows beneath a field
ErrorOf(errs, field) == IF HasError(errs, field) THEN errs[field] ELSE Undefined

\* result.error.errors.forEach(err => fieldErrors[err.path[0]] = err.message)
CollectFirstError(issues, fieldErrors) ==
    IF issues = <<>> THEN fieldErrors
    ELSE SetKey(fieldErrors, Head(issues).path, Head(issues).message)
RECURSIVE CollectErrors(_, _)
CollectErrors(issues, fieldErrors) ==
    IF issues = <<>> THEN fieldErrors
    ELSE CollectErrors(Tail(issues),
                       SetKey(fieldErrors, Head(issues).path, Head(issues).message))

\* setErrors(prev => ({ ...prev, [field]: undefined }))
ClearAllErrors(errs, field) == EmptyErrors
ClearFieldError(errs, field) == SetKey(errs, field, Undefined)

\* setErrors({}) at the start of handleSubmit
ClearedErrors == EmptyErrors

\* setFormData({ name: "", schoolName: "", email: "", message: "" })
KeptForm == formData
ResetForm == EmptyForm

\* toast({ title: "Inquiry Submitted!", ... })
NoToast(n) == n
ShowToast(n) == n + 1

\* <Button type="submit" disabled={isSubmitting}>: a disabled default button
\* blocks the click and the implicit submission of the form
SubmitAlwaysEnabled == TRUE
SubmitEnabled == ~isSubmitting

---------------------------------------------------------------------------
(* Values the user can put into a field *)

Pads == 0..MaxPad

WellFormed(s) ==
    /\ (s.body = 0 => s.trail = 0 /\ s.shape = "text")
    /\ (s.shape = "email" => s.body >= EmailMinLen)

Strings(bodies, shapes) ==
    {s \in {Str(l, b, t, sh) : l \in Pads, b \in bodies, t \in Pads, sh \in shapes} :
        WellFormed(s)}

\* boundary lengths of every field, with and without surrounding whitespace
Values(field) ==
    CASE field = "name" -> Strings({0, 1, NameMax, NameMax + 1}, {"text"})
      [] field = "schoolName" ->
            Strings({0, 1, SchoolNameMax, SchoolNameMax + 1}, {"text"})
      [] field = "email" ->
            Strings({0, EmailMinLen, EmailMax, EmailMax + 1}, {"text", "email"})
      [] field = "message" ->
            Strings({0, MessageMin - 1, MessageMin, MessageMax, MessageMax + 1},
                    {"text"})

\* the values typed in the event-interleaving specification: for every field
\* the empty string, an acceptable value and rejected ones
EditValues(field) ==
    CASE field = "name" ->
            {EmptyStr, Str(1, 1, 1, "text"), Str(0, NameMax + 1, 0, "text")}
      [] field = "schoolName" ->
            {EmptyStr, Str(0, SchoolNameMax, 0, "text"),
             Str(0, SchoolNameMax + 1, 0, "text")}
      [] field = "email" ->
            {EmptyStr, Str(0, EmailMinLen, 0, "email"),
             Str(0, EmailMinLen, 0, "text"), Str(0, EmailMax + 1, 0, "text")}
      [] field = "message" ->
            {EmptyStr, Str(0, MessageMin, 0, "text"),
             Str(0, MessageMin - 1, 0, "text")}

EditForms == {fd \in [FieldSet -> UNION {EditValues(f) : f \in FieldSet}] :
                 \A f \in FieldSet : fd[f] \in EditValues(f)}

\* forms in which one field holds any of the boundary values
SampledForms ==
    UNION {{[fd EXCEPT ![f] = v] : fd \in EditForms, v \in Values(f)} : f \in FieldSet}

---------------------------------------------------------------------------
(* The component *)

NoResult == [cmd |-> "NONE", status |-> "ok", rows |-> {}]

FormInit ==
    /\ formData = EmptyForm
    /\ errors = EmptyErrors
    /\ isSubmitting = FALSE
    /\ pending = <<>>
    /\ toasts = 0

DbInit ==
    /\ rows = {}
    /\ clock = 0
    /\ lastResult = NoResult

Init == FormInit /\ DbInit

\* onChange={(e) => handleChange(field, e.target.value)}: fired when the
\* value of the control changes
HandleChange(field, value) ==
    /\ value # formData[field]
    /\ formData' = [formData EXCEPT ![field] = value]
    /\ errors' = IF HasError(errors, field)
                 THEN ClearFieldError(errors, field)
                 ELSE errors
    /\ UNCHANGED <<isSubmitting, pending, toasts>>
    /\ UNCHANGED dbVars

\* handleSubmit up to its await.  The state updates of one event are batched,
\* so setIsSubmitting(true) followed by setIsSubmitting(false) leaves false.
HandleSubmit ==
    /\ SubmitEnabled
    /\ toasts + Len(pending) < MaxToasts
    /\ LET result == SafeParse(formData)
       IN IF ~result.success
          THEN /\ errors' = CollectErrors(result.issues, EmptyErrors)
               /\ isSubmitting' = FALSE
               /\ UNCHANGED pending
          ELSE /\ errors' = ClearedErrors
               /\ isSubmitting' = TRUE
               /\ pending' = Append(pending,
                                    [formData |-> formData, data |-> result.data])
    /\ UNCHANGED <<formData, toasts>>
    /\ UNCHANGED dbVars

\* handleSubmit after its await: the timer of the oldest suspended call fires
HandleSubmitResume ==
    /\ pending # <<>>
    /\ pending' = Tail(pending)
    /\ toasts' = ShowToast(toasts)
    /\ formData' = ResetForm
    /\ isSubmitting' = FALSE
    /\ UNCHANGED errors
    /\ UNCHANGED dbVars

UserEdits == \E f \in FieldSet : \E v \in EditValues(f) : HandleChange(f, v)

Next ==
    \/ UserEdits
    \/ HandleSubmit
    \/ HandleSubmitResume

Spec == Init /\ [][Next]_vars

\* setTimeout(resolve, 1000): the event loop runs a due timer
LiveSpec == Init /\ [][Next]_vars /\ WF_vars(HandleSubmitResume)

\* the validation of one submit attempt, over the boundary values
ValInit ==
    /\ formData \in SampledForms
    /\ errors = EmptyErrors
    /\ isSubmitting = FALSE
    /\ pending = <<>>
    /\ toasts = 0
    /\ DbInit

ValNext ==
    \/ HandleSubmit
    \/ HandleSubmitResume

ValSpec == ValInit /\ [][ValNext]_vars

---------------------------------------------------------------------------
(* public.contact_submissions *)

\* the SQL NULL of a text column
Null == Str(0, 0, 0, "null")

\* a column the statement leaves out, or the value it gives
Omitted == {}
Given(v) == {v}
ValueOf(arg) == CHOOSE v \in arg : TRUE

TextColumns == {"name", "school_name", "email", "message"}

\* the text columns are declared NOT NULL (id and created_at too: they are
\* never NULL here, a statement gives them a value or leaves them out)
NotNullColumns == {"name", "school_name", "email", "message"}

\* ALTER TABLE ... ENABLE ROW LEVEL SECURITY
RowSecurity == TRUE

\* CREATE POLICY "Anyone can submit contact form" ... FOR INSERT WITH CHECK (true);
\* no other policy is created
PoliciesWithPublicRead ==
    {[name |-> "Anyone can submit contact form", cmd |-> "INSERT", expr |-> "true"],
     [name |-> "Anyone can read submissions", cmd |-> "SELECT", expr |-> "true"]}
Policies ==
    {[name |-> "Anyone can submit contact form", cmd |-> "INSERT", expr |-> "true"]}

PolicyExpr(p, row) == p.expr = "true"

\* row-level security of a statement of kind cmd on a row: without it every
\* row passes, with it a row passes when some policy for cmd accepts it
Permits(cmd, row) ==
    \/ ~RowSecurity
    \/ \E p \in Policies : p.cmd \in {cmd, "ALL"} /\ PolicyExpr(p, row)

IdPool == 1..MaxRows
ClientTimes == {0}

UsedIds == {r.id : r \in rows}

\* DEFAULT gen_random_uuid(): an identifier no row has
GenRandomUuid == CHOOSE i \in IdPool : i \notin UsedIds /\ \A j \in IdPool \ UsedIds : i <= j

\* the texts an anonymous caller sends; the API accepts any text or NULL
InsertValues(col) ==
    CASE col = "name" -> {Null, EmptyStr, Str(0, 1, 0, "text")}
      [] col = "school_name" -> {Str(0, 1, 0, "text")}
      [] col = "email" -> {Str(0, EmailMinLen, 0, "email")}
      [] col = "message" ->
            {Str(0, MessageMin, 0, "text"), Str(0, MessageMin - 1, 0, "text")}

InsertPayloads ==
    {v \in [TextColumns -> UNION {InsertValues(c) : c \in TextColumns}] :
        \A c \in TextColumns : v[c] \in InsertValues(c)}

Result(cmd, status, returned) == [cmd |-> cmd, status |-> status, rows |-> returned]

\* INSERT INTO public.contact_submissions by the anon role: an omitted id or
\* created_at takes the column default, a supplied one is stored as given
AnonInsert(vals, idArg, createdArg) ==
    /\ Cardinality(rows) < MaxRows
    /\ LET row == [id |-> IF idArg = Omitted THEN GenRandomUuid ELSE ValueOf(idArg),
                   id_source |-> IF idArg = Omitted THEN "default" ELSE "client",
                   name |-> vals["name"],
                   school_name |-> vals["school_name"],
                   email |-> vals["email"],
                   message |-> vals["message"],
                   created_at |->
                       IF createdArg = Omitted THEN clock ELSE ValueOf(createdArg),
                   created_at_source |->
                       IF createdArg = Omitted THEN "default" ELSE "client"]
           status ==
               IF ~Permits("INSERT", row) THEN "rls_violation"
               ELSE IF \E c \in NotNullColumns : row[c] = Null
                    THEN "not_null_violation"
               ELSE IF row.id \in UsedIds THEN "unique_violation"
               ELSE "ok"
       IN /\ rows' = IF status = "ok" THEN rows \cup {row} ELSE rows
          /\ clock' = IF status = "ok" THEN clock + 1 ELSE clock
          /\ lastResult' = Result("INSERT", status, {})
    /\ UNCHANGED formVars

\* SELECT * FROM public.contact_submissions by the anon role
AnonSelect ==
    /\ lastResult' = Result("SELECT", "ok", {r \in rows : Permits("SELECT", r)})
    /\ UNCHANGED <<rows, clock>>
    /\ UNCHANGED formVars

\* UPDATE public.contact_submissions SET message = ... by the anon role
AnonUpdate(text) ==
    /\ LET hit == {r \in rows : Permits("UPDATE", r)}
       IN /\ rows' = (rows \ hit) \cup {[r EXCEPT !.message = text] : r \in hit}
          /\ lastResult' = Result("UPDATE", "ok", {})
    /\ UNCHANGED clock
    /\ UNCHANGED formVars

\* DELETE FROM public.contact_submissions by the anon role
AnonDelete ==
    /\ rows' = {r \in rows : ~Permits("DELETE", r)}
    /\ lastResult' = Result("DELETE", "ok", {})
    /\ UNCHANGED clock
    /\ UNCHANGED formVars

AnonInserts ==
    \E vals \in InsertPayloads :
        \E idArg \in {Omitted} \cup {Given(i) : i \in IdPool} :
            \E createdArg \in {Omitted} \cup {Given(t) : t \in ClientTimes} :
                AnonInsert(vals, idArg, createdArg)

AnonUpdates == \E text \in InsertValues("message") : AnonUpdate(text)

DbNext ==
    \/ AnonInserts
    \/ AnonSelect
    \/ AnonUpdates
    \/ AnonDelete

DbSpec == Init /\ [][DbNext]_vars

---------------------------------------------------------------------------
(* Properties of the component *)

AnyEmpty == \E f \in FieldSet : StrLen(formData[f]) = 0

\* the fields whose current value the schema rejects
Violating == {f \in FieldSet : ParseField(f, formData[f]).issues # <<>>}

Shown(errs) == {f \in FieldSet : HasError(errs, f)}

\* C1: a submit attempt with an empty field fails validation: nothing is
\* sent, no notification is shown, the field values stay and the empty
\* field gets a message.
C1_EmptyFieldAbortsSubmit ==
    [][(HandleSubmit /\ AnyEmpty) =>
          /\ pending' = pending
          /\ toasts' = toasts
          /\ formData' = formData
          /\ ~isSubmitting'
          /\ \A f \in FieldSet : StrLen(formData[f]) = 0 => HasError(errors', f)]_vars

\* a submit attempt was refused although only one field was left empty
C1_Witness ==
    /\ ~isSubmitting /\ pending = <<>> /\ toasts = 0
    /\ Shown(errors) = {"name"}
    /\ StrLen(formData["name"]) = 0
    /\ \A f \in FieldSet \ {"name"} : StrLen(formData[f]) > 0

\* C2: a submit attempt that passes validation eventually completes with
\* exactly one more notification, the four fields empty and isSubmitting
\* false.
C2_ValidSubmitCompletes ==
    \A n \in 0..(MaxToasts - 1) :
        (Len(pending) = 1 /\ isSubmitting /\ toasts = n)
            ~> (pending = <<>> /\ ~isSubmitting /\ toasts = n + 1
                /\ formData = EmptyForm)

\* a submission has completed
C2_Witness ==
    /\ toasts = 1 /\ pending = <<>> /\ ~isSubmitting
    /\ formData = EmptyForm /\ errors = EmptyErrors

\* C3: at most one submission is in flight; while one is, isSubmitting is
\* true and the submit control is disabled.
C3_OneInFlight ==
    /\ Len(pending) <= 1
    /\ isSubmitting <=> pending # <<>>
    /\ isSubmitting => ~SubmitEnabled

\* a second submission is in flight after the first one completed
C3_Witness == isSubmitting /\ Len(pending) = 1 /\ toasts = 1

\* C4: editing a field removes that field's message and leaves the messages
\* and the values of the other fields as they were; editing a field without
\* a message leaves the errors record as it was.
C4_EditClearsOnlyOwnError ==
    [][\A f \in FieldSet : \A v \in EditValues(f) :
          HandleChange(f, v) =>
              /\ ~HasError(errors', f)
              /\ \A g \in FieldSet \ {f} :
                    /\ ErrorOf(errors', g) = ErrorOf(errors, g)
                    /\ formData'[g] = formData[g]
              /\ (~HasError(errors, f) => errors' = errors)]_vars

\* one message was removed by an edit and two others are still shown
C4_Witness ==
    /\ \E f \in DOMAIN errors : errors[f] = Undefined
    /\ Cardinality(Shown(errors)) >= 2

\* C9: the fields can be edited while a submission is in flight, the
\* submission rests on the values that passed validation, and its completion
\* empties the four fields whatever was typed in between.
C9_InFlightEditsDiscarded ==
    /\ [](isSubmitting => ENABLED UserEdits)
    /\ [](\A i \in 1..Len(pending) : SafeParse(pending[i].formData).success)
    /\ [][HandleSubmitResume => formData' = EmptyForm]_vars

\* a field was edited, to a value the schema rejects, during the send
C9_Witness ==
    /\ isSubmitting /\ Len(pending) = 1
    /\ formData # pending[1].formData
    /\ Violating # {}

\* C10: after a submit attempt that fails validation the errors record has a
\* message for exactly the fields whose values violate the schema; during
\* and after an attempt that passes, the record is empty.
C10_ErrorsMatchViolations ==
    /\ [][HandleSubmit =>
            /\ Shown(errors') = Violating
            /\ DOMAIN errors' = Violating]_vars
    /\ [](isSubmitting => errors = EmptyErrors)
    /\ [][HandleSubmitResume => errors' = EmptyErrors]_vars

\* a second failed attempt, after a completed submission, shows two messages
C10_Witness ==
    /\ toasts = 1 /\ ~isSubmitting
    /\ DOMAIN errors = Violating
    /\ Cardinality(Shown(errors)) = 2
    /\ Cardinality(Violating) = 2

---------------------------------------------------------------------------
(* Properties of the validation schema *)

RawLen(f) == StrLen(formData[f])
TrimmedLen(f) == StrLen(Trim(formData[f]))

\* C5 as stated: a message of fewer than 10 or more than 1000 characters
\* fails validation and the message field gets an error.
C5_RawLengthRejected ==
    [][(HandleSubmit /\ (RawLen("message") < MessageMin \/ RawLen("message") > MessageMax))
          => (HasError(errors', "message") /\ pending' = pending)]_vars

\* C5 amended: a message whose length without the surrounding whitespace is
\* below 10 or above 1000 fails validation and the message field gets an error.
C5_TrimmedLengthRejected ==
    [][(HandleSubmit /\ (TrimmedLen("message") < MessageMin
                         \/ TrimmedLen("message") > MessageMax))
          => (HasError(errors', "message") /\ pending' = pending
              /\ ~isSubmitting')]_vars

\* a message of 10 characters, one of them leading whitespace, was refused
C5_Witness ==
    /\ RawLen("message") >= MessageMin
    /\ TrimmedLen("message") < MessageMin
    /\ ErrorOf(errors, "message") = MessageTooShort
    /\ ~isSubmitting /\ pending = <<>>

LengthRule(f, len, max, tooLong) ==
    /\ len > max => ~isSubmitting' /\ pending' = pending /\ ErrorOf(errors', f) = tooLong
    /\ len \in 1..max => ~HasError(errors', f)

\* C6 as stated: a name of more than 100 characters and a school name of
\* more than 200 get the length message, values of 1 to 100 and of 1 to 200
\* characters get no error.
C6_RawLengthRule ==
    [][HandleSubmit =>
          /\ LengthRule("name", RawLen("name"), NameMax, NameTooLong)
          /\ LengthRule("schoolName", RawLen("schoolName"), SchoolNameMax,
                        SchoolTooLong)]_vars

\* C6 amended: the same, with the lengths taken without the surrounding
\* whitespace.
C6_TrimmedLengthRule ==
    [][HandleSubmit =>
          /\ LengthRule("name", TrimmedLen("name"), NameMax, NameTooLong)
          /\ LengthRule("schoolName", TrimmedLen("schoolName"), SchoolNameMax,
                        SchoolTooLong)]_vars

\* a school name of 201 characters was refused with the length message, next
\* to a name of 100 characters and surrounding whitespace that got no error
C6_Witness ==
    /\ ErrorOf(errors, "schoolName") = SchoolTooLong
    /\ TrimmedLen("schoolName") = SchoolNameMax + 1
    /\ RawLen("name") > NameMax
    /\ TrimmedLen("name") = NameMax
    /\ ~HasError(errors, "name")

---------------------------------------------------------------------------
(* Properties of the table *)

\* the ContactSubmission invariant
RowInvariant(r) ==
    /\ r.name # Null /\ StrLen(r.name) \in 1..NameMax
    /\ r.school_name # Null /\ StrLen(r.school_name) \in 1..SchoolNameMax
    /\ r.email # Null /\ IsEmail(r.email) /\ StrLen(r.email) <= EmailMax
    /\ r.message # Null /\ StrLen(r.message) \in MessageMin..MessageMax
    /\ r.id_source = "default"
    /\ r.created_at_source = "default"

\* C7: every row of contact_submissions satisfies the ContactSubmission
\* invariant: bounded name, school name, e-mail and message, and an id and a
\* created_at assigned by the storage layer.
C7_RowsSatisfyInvariant == \A r \in rows : RowInvariant(r)

\* C8: the policy never refuses an anonymous INSERT, no anonymous SELECT
\* returns a row, and no row is updated or deleted by an anonymous caller.
C8_WriteOnly ==
    /\ [](lastResult.cmd = "INSERT" => lastResult.status # "rls_violation")
    /\ [](lastResult.cmd = "SELECT" => lastResult.rows = {})
    /\ [][rows \subseteq rows']_vars

\* an anonymous SELECT on a table that holds rows returned none
C8_Witness ==
    /\ Cardinality(rows) = MaxRows
    /\ lastResult.cmd = "SELECT"
    /\ lastResult.rows = {}

=============================================================================
